---- MODULE Spec2Model ----
(***************************************************************************)
(* Model of the newsletter relay: the replay daemon (replay-daemon.py)     *)
(* polling a mailbox and forwarding to the roster, and the web handlers     *)
(* (webserver.py) that write the same SQLite roster.                        *)
(*                                                                         *)
(* Strings the code inspects (headers, addresses) are tuples of one-char   *)
(* strings, so that lower(), "in", split() are computed, not assumed.      *)
(***************************************************************************)
EXTENDS Integers, Sequences, FiniteSets, TLC

\* ------------------------------------------------------------------ bounds
\* number of messages in the mailbox (one more where passes over several
\* messages are checked, see InitDaemon)
NumMsgs == 1
\* sessions left open at the same time are counted up to MaxOpen
MaxOpen == 1
\* instants of the wall clock the web handlers read
MaxClock == 2

\* ----------------------------------------------------------- string helpers
UPPER == <<"A","B","C","D","E","F","G","H","I","J","K","L","M",
           "N","O","P","Q","R","S","T","U","V","W","X","Y","Z">>
LOWER == <<"a","b","c","d","e","f","g","h","i","j","k","l","m",
           "n","o","p","q","r","s","t","u","v","w","x","y","z">>

ToLower == [c \in { UPPER[n] : n \in DOMAIN UPPER } |->
               LOWER[CHOOSE n \in DOMAIN UPPER : UPPER[n] = c]]

LowerCh(c) == IF c \in DOMAIN ToLower THEN ToLower[c] ELSE c

\* str.lower()
Lower(s) == [j \in 1..Len(s) |-> LowerCh(s[j])]

\* t in s  (substring test)
IsSubstr(t, s) ==
    \E p \in 0..(Len(s) - Len(t)) : \A j \in 1..Len(t) : s[p + j] = t[j]

\* position of the first occurrence of character ch in s, 0 when absent
FirstPos(ch, s) ==
    IF \E p \in 1..Len(s) : s[p] = ch
    THEN CHOOSE p \in 1..Len(s) : s[p] = ch /\ \A q \in 1..(p - 1) : s[q] # ch
    ELSE 0

\* s.split(ch, 1)[0]
SplitHead(s, ch) ==
    IF FirstPos(ch, s) = 0 THEN s ELSE SubSeq(s, 1, FirstPos(ch, s) - 1)

\* s.split(ch, 1)[1]  (only used when ch occurs in s)
SplitTail(s, ch) == SubSeq(s, FirstPos(ch, s) + 1, Len(s))

RECURSIVE LStrip(_)
LStrip(s) == IF s # <<>> /\ Head(s) = " " THEN LStrip(Tail(s)) ELSE s

RECURSIVE RStrip(_)
RStrip(s) ==
    IF s # <<>> /\ s[Len(s)] = " " THEN RStrip(SubSeq(s, 1, Len(s) - 1)) ELSE s

\* str.strip()
Strip(s) == RStrip(LStrip(s))

\* ------------------------------------------------------ program constants
\* imap.json filter_recipient, lower-cased at load
ALLOWED_FROMS == { <<"b","@","w">> }
TEST_TAG == <<"+","t","e","s","t">>
\* rank given to a row inserted without one
DefaultRank == 100

\* a missing value (Python None, SQL NULL, an absent config row)
NoValue == <<>>

\* ------------------------------------------------------------- addresses
AddrA == <<"a","@","x">>
AddrB == <<"b","@","x">>
AddrC == <<"c","@","x">>
AddrBoss == <<"b","@","w">>
Tokens == {"t1", "t2", "t3"}
\* Receipt timestamps: the code only compares them, so as many values as
\* there are messages give every order and every tie.
Timestamps(n) == 1..n

\* --------------------------------------------------------------- messages
\* A mailbox message as the daemon reads it:
\*   ts        receipt timestamp (INTERNALDATE)
\*   from      value of the From header (<<>> when absent)
\*   replyTo   value of the Reply-To header (<<>> when absent)
\*   subject   value of the Subject header (<<>> when absent)
\*   reportType  report-type parameter of the Content-Type (<<>> when absent)
\*   parts     msg.walk(): the content type of each part, root first, and for
\*             a message/delivery-status part its list of status blocks
\*   rcpts     the addresses getaddresses() yields for the recipient headers
\*   malformed the message has a structure on which the transform raises
DELIVERY_STATUS == <<"d","e","l","i","v","e","r","y","-","s","t","a","t","u","s">>
UNDELIVERED == <<"u","n","d","e","l","i","v","e","r","e","d">>
DSN_SUBJECT == <<"d","e","l","i","v","e","r","y"," ","s","t","a","t","u","s"," ","n","o","t","i","f","i","c","a","t","i","o","n">>

NoBlocks == <<>>
Part(ct) == [ctype |-> ct, blocks |-> NoBlocks]
StatusPart(bl) == [ctype |-> "message/delivery-status", blocks |-> bl]
Block(f, o) == [final |-> f, original |-> o]

KBroadcast ==
    [from |-> <<"B","@","w">>, replyTo |-> <<>>, subject |-> <<"n","e","w","s">>,
     reportType |-> <<>>, parts |-> <<Part("text/plain")>>,
     rcpts |-> {<<"l","@","x">>}, malformed |-> FALSE]

KTest ==
    [from |-> <<"b","@","w">>, replyTo |-> <<>>, subject |-> <<"n","e","w","s">>,
     reportType |-> <<>>, parts |-> <<Part("text/html")>>,
     rcpts |-> {<<"l","@","x">>, <<"o","+","t","e","s","t","@","x">>}, malformed |-> FALSE]

KBounce ==
    [from |-> <<"m","@","y">>, replyTo |-> <<>>, subject |-> <<"f","a","i","l">>,
     reportType |-> <<"D","e","l","i","v","e","r","y","-","S","t","a","t","u","s">>,
     parts |-> <<Part("multipart/report"), Part("text/plain"),
                 StatusPart(<<Block(<<"r","f","c","8","2","2",";"," ","A","@","X">>,
                                    <<"r","f","c","8","2","2",";","z","@","x">>)>>)>>,
     rcpts |-> {<<"b","@","w">>}, malformed |-> FALSE]

KSpam ==
    [from |-> <<"e","@","y">>, replyTo |-> <<>>, subject |-> <<"w","i","n">>,
     reportType |-> <<>>, parts |-> <<Part("text/plain")>>,
     rcpts |-> {<<"O","+","T","e","s","t","@","x">>}, malformed |-> FALSE]

KSubjectBounce ==
    [from |-> <<"b","@","w">>, replyTo |-> <<>>, subject |-> <<"U","n","d","e","l","i","v","e","r","e","d"," ","m","a","i","l">>,
     reportType |-> <<>>, parts |-> <<Part("text/plain")>>,
     rcpts |-> {<<"o","+","t","e","s","t","@","x">>}, malformed |-> FALSE]

KMalformed ==
    [from |-> <<"x","b","@","w","z">>, replyTo |-> <<>>, subject |-> <<>>,
     reportType |-> <<>>, parts |-> <<Part("multipart/mixed"), Part("text/plain")>>,
     rcpts |-> {<<"o","@","x","+","t","e","s","t">>}, malformed |-> TRUE]

\* a Broadcast whose only body is a picture (no wider than INLINE_IMAGE_WIDTH,
\* so _resize_inline_images leaves it alone)
KImage ==
    [from |-> <<"b","@","w">>, replyTo |-> <<>>, subject |-> <<"p","i","c">>,
     reportType |-> <<>>, parts |-> <<Part("image/png")>>,
     rcpts |-> {<<"l","@","x">>}, malformed |-> FALSE]

\* a Broadcast with two text alternatives and an attached picture
KMixed ==
    [from |-> <<"b","@","w">>, replyTo |-> <<>>, subject |-> <<"m","i","x">>,
     reportType |-> <<>>,
     parts |-> <<Part("multipart/mixed"), Part("text/plain"), Part("text/html"),
                 Part("image/png")>>,
     rcpts |-> {<<"l","@","x">>}, malformed |-> FALSE]

Kinds == {KBroadcast, KTest, KBounce, KSpam, KSubjectBounce, KMalformed}
\* the kinds whose handling differs once classified
DaemonKinds == {KBroadcast, KTest, KBounce, KMalformed}

WithTs(kind, t) ==
    [ts |-> t, from |-> kind.from, replyTo |-> kind.replyTo, subject |-> kind.subject,
     reportType |-> kind.reportType, parts |-> kind.parts, rcpts |-> kind.rcpts,
     malformed |-> kind.malformed]

Messages(kinds, n) == { WithTs(kind, t) : kind \in kinds, t \in Timestamps(n) }

\* ------------------------------------------------- classification helpers
\* _is_bounce
IsBounce(msg) ==
    \/ /\ msg.parts[1].ctype = "multipart/report"
       /\ Lower(msg.reportType) = DELIVERY_STATUS
    \/ \E p \in DOMAIN msg.parts : msg.parts[p].ctype = "message/delivery-status"
    \/ IsSubstr(UNDELIVERED, Lower(msg.subject))
    \/ IsSubstr(DSN_SUBJECT, Lower(msg.subject))

\* the value of one Final-Recipient / Original-Recipient field, as the loop
\* body of _extract_bounce_recipients turns it into an address
BounceAddr(val) ==
    Lower(IF FirstPos(";", val) # 0 THEN Strip(SplitTail(val, ";")) ELSE val)

\* _extract_bounce_recipients
ExtractBounceRecipients(msg) ==
    LET vals == UNION { UNION { {msg.parts[p].blocks[b].final,
                                 msg.parts[p].blocks[b].original}
                               : b \in DOMAIN msg.parts[p].blocks }
                        : p \in { q \in DOMAIN msg.parts :
                                    msg.parts[q].ctype = "message/delivery-status" } }
    IN  { BounceAddr(v) : v \in { w \in vals : w # <<>> } }

\* _extract_header_recipients
ExtractHeaderRecipients(msg) == { Lower(a) : a \in { r \in msg.rcpts : r # <<>> } }

\* _has_test_tag
HasTestTag(recips) == \E a \in recips : IsSubstr(TEST_TAG, SplitHead(a, "@"))

\* _extract_sender_email
ExtractSenderEmail(msg) ==
    IF msg.from # <<>> THEN Lower(msg.from)
    ELSE IF msg.replyTo # <<>> THEN Lower(msg.replyTo)
    ELSE NoValue

\* any(v in from_hdr for v in ALLOWED_FROMS)
FromAllowed(msg) == \E v \in ALLOWED_FROMS : IsSubstr(v, Lower(msg.from))

\* datetime.isoformat / datetime.fromisoformat on whole-second UTC datetimes
IsoFormat(dt) == <<"iso", dt>>
FromIsoFormat(raw) == raw[2]

\* ------------------------------------------------------------------ state
VARIABLES
    mailbox,     \* the INBOX: sequence of messages, message id = position
    seen,        \* ids flagged \Seen
    config,      \* committed config row last_processed_at (NoValue when absent)
    recipients,  \* committed recipients table: sequence of rows, row id = position
    pc,          \* where the daemon is
    i,           \* main_loop: position in ids of the message being handled
    routed,      \* main_loop: the last message classified and its branch
    contacts,    \* main_loop: the list load_contacts returned
    k,           \* main_loop: position in contacts of the next recipient
    wire,        \* main_loop: the last Broadcast copy sendmail took
    tx,          \* main_loop: the open transaction of con (uncommitted writes)
    sent,        \* sendmail calls accepted in the current pass, in order
    err,         \* the last exception raised out of a pass ("none" when none)
    imapOpen,    \* mailbox sessions open
    smtpOpen,    \* outbound sessions open
    resp,        \* status of the last web response (0 before any)
    clock,       \* the wall clock datetime.now() reads
    skipped,     \* history: ids whose fetch failed while they were not processed
    pending,     \* history: Broadcast ids with sends issued and no commit yet
    issued       \* history: for each address, the first token a row held it with

vars == <<mailbox, seen, config, recipients, pc, i, routed, contacts, k, wire, tx,
          sent, err, imapOpen, smtpOpen, resp, clock, skipped, pending, issued>>

daemonLocals == <<i, routed, contacts, k, wire>>
history == <<skipped, pending, issued>>
web == <<resp, clock>>

\* a recipients row
Row(e, r, u, at, tok) ==
    [email |-> e, rank |-> r, unsubscribed |-> u, unsubscribed_at |-> at, token |-> tok]

\* ------------------------------------------------------------- transform
\* _sign_unsub(email_addr, token): the daemon's MAC, same key, same message
SignUnsub(e, t) == <<"mac", e, t>>

\* urllib.parse.quote_plus on the characters addresses are written with
QuoteCh(c) ==
    CASE c = " " -> <<"+">>
      [] c = "+" -> <<"%", "2", "B">>
      [] c = "@" -> <<"%", "4", "0">>
      [] c = ";" -> <<"%", "3", "B">>
      [] OTHER -> <<c>>

RECURSIVE QuotePlus(_)
QuotePlus(str) == IF str = <<>> THEN <<>> ELSE QuoteCh(Head(str)) \o QuotePlus(Tail(str))

\* _build_unsub_link: the query string urlencode makes of e, t and s (token
\* and signature are hexadecimal, which quoting leaves as they are)
BuildUnsubLink(e, t) == [e |-> QuotePlus(e), t |-> t, s |-> SignUnsub(e, t)]

\* part.get_content_maintype() / get_content_subtype()
MainType(ct) ==
    CASE ct \in {"text/plain", "text/html", "text/png"} -> "text"
      [] ct = "image/png" -> "image"
      [] ct \in {"multipart/mixed", "multipart/report"} -> "multipart"
      [] OTHER -> "message"

SubType(ct) ==
    CASE ct = "text/plain" -> "plain"
      [] ct = "text/html" -> "html"
      [] ct \in {"image/png", "text/png"} -> "png"
      [] ct = "multipart/mixed" -> "mixed"
      [] ct = "multipart/report" -> "report"
      [] OTHER -> "delivery-status"

\* the content type set_content(text, subtype=...) gives a part
TextType(subtype) ==
    CASE subtype = "plain" -> "text/plain"
      [] subtype = "html" -> "text/html"
      [] subtype = "png" -> "text/png"
      [] subtype = "mixed" -> "text/mixed"
      [] subtype = "report" -> "text/report"
      [] OTHER -> "text/delivery-status"

\* msg.is_multipart(): the root is a container
IsMultipart(parts) == MainType(parts[1].ctype) = "multipart"

\* The payload of part p of the copy: the payload of part p of the source
\* (formatted as the repr of a bytes object when asRepr), followed by the
\* notice ("none", "anchor" for the <a href> paragraph, "line" for the
\* trailing text line).
Payload(p, asRepr, notice) == [of |-> p, repr |-> asRepr, notice |-> notice]

\* the text _append_unsub adds for a subtype
Notice(subtype) == IF subtype = "html" THEN "anchor" ELSE "line"

\* get_content() of a part inside an f-string: a text part gives its text,
\* any other part gives bytes, which the f-string formats as their repr
TextOf(parts, p) == Payload(p, MainType(parts[p].ctype) # "text", "none")

\* _append_unsub: content type and payload of every part afterwards
AppendUnsub(parts) ==
    IF IsMultipart(parts)
    THEN [p \in DOMAIN parts |->
            IF MainType(parts[p].ctype) # "text"
            THEN [ctype |-> parts[p].ctype, payload |-> Payload(p, FALSE, "none")]
            ELSE [ctype |-> TextType(SubType(parts[p].ctype)),
                  payload |-> [TextOf(parts, p) EXCEPT
                                  !.notice = Notice(SubType(parts[p].ctype))]]]
    ELSE [p \in DOMAIN parts |->
            [ctype |-> TextType(SubType(parts[p].ctype)),
             payload |-> [TextOf(parts, p) EXCEPT
                             !.notice = Notice(SubType(parts[p].ctype))]]]

\* no copy has been made
NoWire == [mid |-> 0, to |-> NoValue, listUnsubscribe |-> BuildUnsubLink(<<>>, ""),
           parts |-> <<>>]

\* forward_full_fidelity: the copy of message mid made for rcpt (the pictures
\* of the catalog are within INLINE_IMAGE_WIDTH, which _resize_inline_images
\* passes over; REPLY_TO_MODE is "original")
ForwardFullFidelity(mid, parts, rcpt, token) ==
    [mid |-> mid, to |-> rcpt, listUnsubscribe |-> BuildUnsubLink(rcpt, token),
     parts |-> AppendUnsub(parts)]

TxNone == [open |-> FALSE, cursor |-> NoValue, unsubs |-> {}]
NotRouted == [mid |-> 0, as |-> "none"]

\* (variant: the SELECT without its WHERE clause)
SubscribedIdsNoWhere(rows) == DOMAIN rows

\* ids of the rows SELECT ... WHERE unsubscribed=0 keeps
SubscribedIds(rows) == { r \in DOMAIN rows : rows[r].unsubscribed = 0 }

\* (variant: ORDER BY id ASC alone)
RECURSIVE OrderByIdOnly(_, _)
OrderByIdOnly(rows, S) ==
    IF S = {} THEN <<>>
    ELSE LET m == CHOOSE r \in S : \A q \in S : r <= q
         IN  <<m>> \o OrderByIdOnly(rows, S \ {m})

\* ORDER BY rank ASC, id ASC
RECURSIVE OrderByRankId(_, _)
OrderByRankId(rows, S) ==
    IF S = {} THEN <<>>
    ELSE LET m == CHOOSE r \in S : \A q \in S :
                      \/ rows[r].rank < rows[q].rank
                      \/ rows[r].rank = rows[q].rank /\ r <= q
         IN  <<m>> \o OrderByRankId(rows, S \ {m})

\* load_contacts
LoadContacts(rows) ==
    LET order == OrderByRankId(rows, SubscribedIds(rows))
    IN  [j \in 1..Len(order) |->
            [rank |-> rows[order[j]].rank,
             email |-> Lower(rows[order[j]].email),
             token |-> rows[order[j]].token]]

\* (variant: an upsert, which inserts a row when no row has the address)
UpdateUnsubscribedUpsert(rows, e, now) ==
    IF \E r \in DOMAIN rows : rows[r].email = e
    THEN [r \in DOMAIN rows |->
            IF rows[r].email = e
            THEN [rows[r] EXCEPT !.unsubscribed = 1, !.unsubscribed_at = now]
            ELSE rows[r]]
    ELSE Append(rows, Row(e, DefaultRank, 1, now, "t3"))

\* UPDATE recipients SET unsubscribed=1, unsubscribed_at=? WHERE email=?
UpdateUnsubscribed(rows, e, now) ==
    [r \in DOMAIN rows |->
        IF rows[r].email = e
        THEN [rows[r] EXCEPT !.unsubscribed = 1, !.unsubscribed_at = now]
        ELSE rows[r]]

\* the pending UPDATEs of a transaction, applied to the table at commit
RECURSIVE ApplyUnsubs(_, _)
ApplyUnsubs(rows, us) ==
    IF us = {} THEN rows
    ELSE LET u == CHOOSE x \in us : TRUE
         IN  ApplyUnsubs(UpdateUnsubscribed(rows, u.email, u.at), us \ {u})

\* (variant: the cursor check with < for <=)
AlreadySeenStrict(msg, raw) == raw # NoValue /\ msg.ts < FromIsoFormat(raw)

\* (variant: no cursor check, every listed message is handled)
AlreadySeenNever(msg, raw) == FALSE

\* the cursor check of main_loop: last_seen and msg_dt <= last_seen
AlreadySeen(msg, raw) == raw # NoValue /\ msg.ts <= FromIsoFormat(raw)

\* (variant: the test-probe branch placed before the bounce branch)
RouteTestFirst(msg, raw) ==
    IF AlreadySeen(msg, raw) THEN "discard"
    ELSE IF ~FromAllowed(msg) /\ ~IsBounce(msg) THEN "ignore"
    ELSE IF HasTestTag(ExtractHeaderRecipients(msg)) THEN "test"
    ELSE IF IsBounce(msg) THEN "bounce"
    ELSE "broadcast"

\* the branch main_loop takes for a fetched message, given the stored cursor
Route(msg, raw) ==
    IF AlreadySeen(msg, raw) THEN "discard"
    ELSE IF ~FromAllowed(msg) /\ ~IsBounce(msg) THEN "ignore"
    ELSE IF IsBounce(msg) THEN "bounce"
    ELSE IF HasTestTag(ExtractHeaderRecipients(msg)) THEN "test"
    ELSE "broadcast"

\* the (address, token) pairs of the rows whose address had no token yet
Issue(iss, rows) ==
    iss \cup { [email |-> rows[r].email, token |-> rows[r].token] :
                  r \in { q \in DOMAIN rows :
                            /\ \A x \in iss : x.email # rows[q].email
                            /\ \A p \in DOMAIN rows : rows[p].email = rows[q].email => q <= p } }

\* for msg_id in ids: where the loop goes with position j
LoopAt(j) == IF j > Len(mailbox) THEN "finally" ELSE "fetch"

\* the state at the daemon's start, with n messages waiting in the mailbox
InitWith(kinds, n) ==
    /\ mailbox \in [1..n -> Messages(kinds, n)]
    /\ \E top \in Timestamps(n) : { mailbox[m].ts : m \in 1..n } = 1..top
    /\ seen = {}
    /\ config = NoValue
    /\ recipients = << Row(AddrA, 2, 0, NoValue, "t1"),
                       Row(AddrB, 1, 0, NoValue, "t2") >>
    /\ pc = "idle"
    /\ i = 0
    /\ routed = NotRouted
    /\ contacts = <<>>
    /\ k = 0
    /\ wire = NoWire
    /\ tx = TxNone
    /\ sent = <<>>
    /\ err = "none"
    /\ imapOpen = 0
    /\ smtpOpen = 0
    /\ resp = 0
    /\ clock = 1
    /\ skipped = {}
    /\ pending = {}
    /\ issued = Issue({}, recipients)

\* ----------------------------------------------------------------- daemon
\* connect_imap(): first statement of main_loop, outside its try
ConnectImap ==
    /\ pc = "idle"
    /\ imapOpen < MaxOpen
    /\ \/ /\ imapOpen' = imapOpen + 1
          /\ pc' = "connect_smtp"
          /\ err' = "none"
       \/ /\ err' = "imap"
          /\ UNCHANGED <<imapOpen, pc, wire>>
    /\ sent' = <<>>
    /\ UNCHANGED <<mailbox, seen, config, recipients, daemonLocals, tx, smtpOpen,
                   web, history>>

\* (variant: the exception of connect_smtp not caught by the caller of
\* main_loop, which ends the process)
ConnectSmtpUncaught ==
    /\ pc = "connect_smtp"
    /\ \/ /\ smtpOpen' = smtpOpen + 1
          /\ pc' = "search"
          /\ err' = err
       \/ /\ err' = "smtp"
          /\ pc' = "exit"
          /\ smtpOpen' = smtpOpen
    /\ UNCHANGED <<mailbox, seen, config, recipients, daemonLocals, tx, sent,
                   imapOpen, web, history>>

\* connect_smtp(): second statement of main_loop, outside its try; when it
\* raises, main_loop is left with the mailbox session still open
ConnectSmtp ==
    /\ pc = "connect_smtp"
    /\ \/ /\ smtpOpen' = smtpOpen + 1
          /\ pc' = "search"
          /\ err' = err
       \/ /\ err' = "smtp"
          /\ pc' = "idle"
          /\ smtpOpen' = smtpOpen
    /\ UNCHANGED <<mailbox, seen, config, recipients, daemonLocals, tx, sent,
                   imapOpen, web, history>>

\* imap.search(None, "ALL")
Search ==
    /\ pc = "search"
    /\ \/ /\ i' = 1
          /\ pc' = LoopAt(1)
       \/ /\ pc' = "finally"
          /\ i' = i
    /\ UNCHANGED <<mailbox, seen, config, recipients, routed, contacts, k, tx, sent,
                   err, imapOpen, smtpOpen, web, history, wire>>

\* imap.fetch(msg_id, "(RFC822 INTERNALDATE)") and Internaldate2tuple
Fetch ==
    /\ pc = "fetch"
    /\ \/ /\ pc' = "classify"
          /\ UNCHANGED <<i, skipped>>
       \/ /\ i' = i + 1
          /\ pc' = LoopAt(i + 1)
          /\ skipped' = IF AlreadySeen(mailbox[i], config)
                        THEN skipped ELSE skipped \cup {i}
    /\ UNCHANGED <<mailbox, seen, config, recipients, routed, contacts, k, tx, sent,
                   err, imapOpen, smtpOpen, web, pending, issued, wire>>

\* con = sqlite3.connect; the cursor check; parse; the allowlist check
Classify ==
    /\ pc = "classify"
    /\ LET r == Route(mailbox[i], config) IN
        /\ routed' = [mid |-> i, as |-> r]
        /\ IF r \in {"discard", "ignore"}
           THEN /\ i' = i + 1
                /\ pc' = LoopAt(i + 1)
           ELSE /\ i' = i
                /\ pc' = "load"
        /\ skipped' = IF r = "discard" THEN skipped ELSE skipped \ {i}
    /\ UNCHANGED <<mailbox, seen, config, recipients, contacts, k, tx, sent, err,
                   imapOpen, smtpOpen, web, pending, issued, wire>>

\* (variant: the list kept from the message before, when there is one)
LoadContactsCached ==
    /\ pc = "load"
    /\ contacts' = IF contacts # <<>> THEN contacts ELSE LoadContacts(recipients)
    /\ k' = 1
    /\ pc' = "set_cursor"
    /\ UNCHANGED <<mailbox, seen, config, recipients, i, routed, tx, sent, err,
                   imapOpen, smtpOpen, web, history, wire>>

\* contacts = load_contacts(): a read on a connection of its own
LoadContactsStep ==
    /\ pc = "load"
    /\ contacts' = LoadContacts(recipients)
    /\ k' = 1
    /\ pc' = "set_cursor"
    /\ UNCHANGED <<mailbox, seen, config, recipients, i, routed, tx, sent, err,
                   imapOpen, smtpOpen, web, history, wire>>

\* _set_config_value(cur, "last_processed_at", ...): the first write on con,
\* which opens its transaction and takes the database's write lock
SetCursor ==
    /\ pc = "set_cursor"
    /\ tx' = [open |-> TRUE, cursor |-> IsoFormat(mailbox[i].ts), unsubs |-> {}]
    /\ pc' = CASE routed.as = "bounce" -> "bounce"
               [] routed.as = "test" -> "test"
               [] OTHER -> IF contacts = <<>> THEN "commit" ELSE "send"
    /\ UNCHANGED <<mailbox, seen, config, recipients, daemonLocals, sent, err,
                   imapOpen, smtpOpen, web, history>>

\* (variant: every UPDATE committed on its own, outside the transaction)
BounceUpdateAutocommit ==
    /\ pc = "bounce"
    /\ recipients' = ApplyUnsubs(recipients,
                          { [email |-> e, at |-> IsoFormat(clock)] :
                              e \in ExtractBounceRecipients(mailbox[i]) })
    /\ pc' = "commit"
    /\ UNCHANGED <<mailbox, seen, config, daemonLocals, tx, sent, err,
                   imapOpen, smtpOpen, web, history>>

\* if is_bounce: the UPDATE of every bounced address, inside the transaction
BounceUpdate ==
    /\ pc = "bounce"
    /\ tx' = [tx EXCEPT !.unsubs = { [email |-> e, at |-> IsoFormat(clock)] :
                                        e \in ExtractBounceRecipients(mailbox[i]) }]
    /\ pc' = "commit"
    /\ UNCHANGED <<mailbox, seen, config, recipients, daemonLocals, sent, err,
                   imapOpen, smtpOpen, web, history>>

\* (variant: the test branch without its continue, falling into the
\* recipient loop)
TestRelayFallsThrough ==
    /\ pc = "test"
    /\ LET sender == ExtractSenderEmail(mailbox[i]) IN
          IF sender # NoValue
          THEN /\ ~mailbox[i].malformed
               /\ sent' = Append(sent, [mid |-> i, rcpt |-> sender])
          ELSE sent' = sent
    /\ pc' = IF contacts = <<>> THEN "commit" ELSE "send"
    /\ UNCHANGED <<mailbox, seen, config, recipients, daemonLocals, tx, err,
                   imapOpen, smtpOpen, web, history>>

\* if is_test: forward_test_message and sendmail to the sender, if there is one
TestRelay ==
    /\ pc = "test"
    /\ LET sender == ExtractSenderEmail(mailbox[i]) IN
          IF sender # NoValue
          THEN /\ ~mailbox[i].malformed
               /\ sent' = Append(sent, [mid |-> i, rcpt |-> sender])
          ELSE sent' = sent
    /\ pc' = "commit"
    /\ UNCHANGED <<mailbox, seen, config, recipients, daemonLocals, tx, err,
                   imapOpen, smtpOpen, web, history>>

\* one turn of "for _rank, rcpt, token in contacts": transform and sendmail
SendOne ==
    /\ pc = "send"
    /\ ~mailbox[i].malformed
    /\ wire' = ForwardFullFidelity(i, mailbox[i].parts, contacts[k].email,
                                    contacts[k].token)
    /\ sent' = Append(sent, [mid |-> i, rcpt |-> contacts[k].email])
    /\ k' = k + 1
    /\ pc' = IF k + 1 > Len(contacts) THEN "commit" ELSE "send"
    /\ pending' = pending \cup {i}
    /\ UNCHANGED <<mailbox, seen, config, recipients, i, routed, contacts, tx, err,
                   imapOpen, smtpOpen, web, skipped, issued>>

\* smtp.sendmail raises (recipient refused, session lost): nothing in the loop
\* catches it, the except of main_loop does
SendRaises ==
    /\ \/ pc = "send" /\ ~mailbox[i].malformed
       \/ pc = "test" /\ ~mailbox[i].malformed /\ ExtractSenderEmail(mailbox[i]) # NoValue
    /\ err' = "send"
    /\ pc' = "finally"
    /\ UNCHANGED <<mailbox, seen, config, recipients, daemonLocals, tx, sent,
                   imapOpen, smtpOpen, web, history>>

\* forward_full_fidelity / forward_test_message raises on a malformed message
TransformRaises ==
    /\ \/ pc = "send"
       \/ pc = "test" /\ ExtractSenderEmail(mailbox[i]) # NoValue
    /\ mailbox[i].malformed
    /\ err' = "transform"
    /\ pc' = "finally"
    /\ UNCHANGED <<mailbox, seen, config, recipients, daemonLocals, tx, sent,
                   imapOpen, smtpOpen, web, history>>

\* con.commit(); con.close()
Commit ==
    /\ pc = "commit"
    /\ config' = tx.cursor
    /\ recipients' = ApplyUnsubs(recipients, tx.unsubs)
    /\ tx' = TxNone
    /\ pc' = "store"
    /\ pending' = pending \ {i}
    /\ UNCHANGED <<mailbox, seen, daemonLocals, sent, err, imapOpen, smtpOpen,
                   web, skipped, issued>>

\* imap.store(msg_id, "+FLAGS", "\\Seen") and on to the next id
MarkSeen ==
    /\ pc = "store"
    /\ seen' = seen \cup {i}
    /\ i' = i + 1
    /\ pc' = LoopAt(i + 1)
    /\ UNCHANGED <<mailbox, config, recipients, routed, contacts, k, tx, sent, err,
                   imapOpen, smtpOpen, web, history, wire>>

\* any other exception inside the try of main_loop (network, database)
Fault ==
    /\ pc \in {"search", "fetch", "classify", "load", "set_cursor", "bounce",
               "test", "send", "commit", "store"}
    /\ err' = "other"
    /\ pc' = "finally"
    /\ UNCHANGED <<mailbox, seen, config, recipients, daemonLocals, tx, sent,
                   imapOpen, smtpOpen, web, history>>

\* finally: smtp.quit(), imap.logout(); main_loop returns, its locals (con
\* with them, rolling back what it had not committed) are dropped
Finally ==
    /\ pc = "finally"
    /\ smtpOpen' = smtpOpen - 1
    /\ imapOpen' = imapOpen - 1
    /\ tx' = TxNone
    /\ i' = 0
    /\ routed' = NotRouted
    /\ contacts' = <<>>
    /\ k' = 0
    /\ wire' = NoWire
    /\ sent' = <<>>
    /\ err' = "none"
    /\ pc' = "idle"
    /\ UNCHANGED <<mailbox, seen, config, recipients, web, history>>

\* the process is killed and started again
Crash ==
    /\ pc # "idle" \/ imapOpen > 0
    /\ pc' = "idle"
    /\ tx' = TxNone
    /\ i' = 0
    /\ routed' = NotRouted
    /\ contacts' = <<>>
    /\ k' = 0
    /\ wire' = NoWire
    /\ sent' = <<>>
    /\ err' = "none"
    /\ imapOpen' = 0
    /\ smtpOpen' = 0
    /\ UNCHANGED <<mailbox, seen, config, recipients, web, history>>

\* the steps of the process itself: while True: main_loop(); sleep
Pass ==
    \/ ConnectImap \/ ConnectSmtp \/ Search \/ Fetch \/ Classify
    \/ LoadContactsStep \/ SetCursor \/ BounceUpdate \/ TestRelay
    \/ SendOne \/ SendRaises \/ TransformRaises \/ Commit \/ MarkSeen
    \/ Fault \/ Finally

Daemon == Pass \/ Crash

\* ------------------------------------------------------------ web handlers
\* (variant: a MAC over the address alone)
SignEmailOnly(e, t) == <<"mac", e>>

\* sign(email_addr, token): the keyed MAC over email "\n" token, kept as the
\* pair it authenticates (distinct pairs give distinct signatures)
Sign(e, t) == <<"mac", e, t>>

\* _now_iso()
NowIso == IsoFormat(clock)

\* _split_emails, on the pieces the separators cut the blob into
RECURSIVE SplitEmails(_)
SplitEmails(pieces) ==
    IF pieces = <<>> THEN <<>>
    ELSE LET e == Lower(Strip(Head(pieces)))
         IN  (IF e # <<>> THEN <<e>> ELSE <<>>) \o SplitEmails(Tail(pieces))

\* secrets.token_hex(16): a token no row holds yet
FreshTokens(rows) == Tokens \ { rows[r].token : r \in DOMAIN rows }

\* (variant: the UPDATE of an existing row sets the flag and leaves
\* unsubscribed_at as it is when subscribing)
UpsertRecipientKeepsAt(rows, e, subscribed, tok) ==
    IF \E r \in DOMAIN rows : rows[r].email = e
    THEN [r \in DOMAIN rows |->
            IF rows[r].email = e
            THEN [rows[r] EXCEPT !.unsubscribed = IF subscribed THEN 0 ELSE 1,
                                 !.unsubscribed_at = IF subscribed THEN @ ELSE NowIso]
            ELSE rows[r]]
    ELSE Append(rows, Row(e, DefaultRank, IF subscribed THEN 0 ELSE 1,
                          IF subscribed THEN NoValue ELSE NowIso, tok))

\* _upsert_recipient(cur, email, None, subscribed, None): rank and name are
\* None at its only call site
UpsertRecipient(rows, e, subscribed, tok) ==
    IF \E r \in DOMAIN rows : rows[r].email = e
    THEN [r \in DOMAIN rows |->
            IF rows[r].email = e
            THEN [rows[r] EXCEPT !.unsubscribed = IF subscribed THEN 0 ELSE 1,
                                 !.unsubscribed_at = IF subscribed THEN NoValue ELSE NowIso]
            ELSE rows[r]]
    ELSE Append(rows, Row(e, DefaultRank, IF subscribed THEN 0 ELSE 1,
                          IF subscribed THEN NoValue ELSE NowIso, tok))

RECURSIVE UpsertAll(_, _, _)
UpsertAll(rows, es, subscribed) ==
    IF es = <<>> THEN rows
    ELSE UpsertAll(UpsertRecipient(rows, Head(es), subscribed,
                                   CHOOSE tok \in FreshTokens(rows) : TRUE),
                   Tail(es), subscribed)

\* the query-string decoding behind request.args
RECURSIVE UnquotePlus(_)
UnquotePlus(str) ==
    IF str = <<>> THEN <<>>
    ELSE IF Head(str) = "+" THEN <<" ">> \o UnquotePlus(Tail(str))
    ELSE IF Head(str) = "%" /\ Len(str) >= 3
    THEN LET hex == <<str[2], str[3]>>
             ch == CASE hex = <<"2", "B">> -> "+"
                     [] hex = <<"4", "0">> -> "@"
                     [] hex = <<"3", "B">> -> ";"
                     [] OTHER -> "?"
         IN  <<ch>> \o UnquotePlus(SubSeq(str, 4, Len(str)))
    ELSE <<Head(str)>> \o UnquotePlus(Tail(str))

\* request.args of a GET of that link
RequestArgs(link) == [e |-> UnquotePlus(link.e), t |-> link.t, s |-> link.s]

\* unsub(): the status its checks give before it writes
UnsubStatus(rows, e0, t, s) ==
    LET e == Lower(e0)
        hit == { r \in DOMAIN rows : rows[r].email = e }
    IN  IF e = <<>> \/ t = "" \/ s = <<>> THEN 400
        ELSE IF Sign(e, t) # s THEN 403
        ELSE IF hit = {} \/ rows[CHOOSE r \in hit : \A q \in hit : r <= q].token # t
        THEN 403
        ELSE 200

\* GET /unsub?e=..&t=..&s=..; the UPDATE waits for the database's write lock
\* and fails when another connection keeps it past the busy timeout
Unsub(e0, t, s) ==
    /\ IF UnsubStatus(recipients, e0, t, s) # 200
       THEN resp' = UnsubStatus(recipients, e0, t, s) /\ recipients' = recipients
       ELSE IF tx.open
       THEN resp' = 500 /\ recipients' = recipients
       ELSE /\ resp' = 200
            /\ recipients' = UpdateUnsubscribed(recipients, Lower(e0), NowIso)
    /\ UNCHANGED <<mailbox, seen, config, pc, daemonLocals, tx, sent, err,
                   imapOpen, smtpOpen, clock, history>>

\* POST /manage with action bulk_subscribe or bulk_unsubscribe
ManageBulk(authorized, action, pieces) ==
    /\ IF ~authorized
       THEN resp' = 401 /\ recipients' = recipients
       ELSE IF SplitEmails(pieces) # <<>> /\ tx.open
       THEN resp' = 500 /\ recipients' = recipients
       ELSE /\ resp' = 200
            /\ recipients' = UpsertAll(recipients, SplitEmails(pieces),
                                       action = "bulk_subscribe")
    /\ issued' = Issue(issued, recipients')
    /\ UNCHANGED <<mailbox, seen, config, pc, daemonLocals, tx, sent, err,
                   imapOpen, smtpOpen, clock, skipped, pending>>

\* int(rank_raw), 100 on ValueError
ParseRank(raw) ==
    CASE raw = "1" -> 1
      [] raw = "2" -> 2
      [] OTHER -> DefaultRank

\* POST /manage with action save_existing and the form fields of one row.
\* The recipients table is declared outside these files with email unique,
\* so the form is taken with an address no other row has.
SaveExisting(authorized, rid, emailRaw, rankRaw, unsubRaw) ==
    LET email == Lower(Strip(emailRaw))
        unsubscribed == IF unsubRaw = "1" THEN 1 ELSE 0
    IN  /\ \A r \in DOMAIN recipients : r # rid => recipients[r].email # email
        /\ IF ~authorized
           THEN resp' = 401 /\ recipients' = recipients
           ELSE IF email = <<>>
           THEN resp' = 200 /\ recipients' = recipients
           ELSE IF tx.open
           THEN resp' = 500 /\ recipients' = recipients
           ELSE /\ resp' = 200
                /\ recipients' = [recipients EXCEPT ![rid] =
                      [@ EXCEPT !.email = email,
                                !.rank = ParseRank(rankRaw),
                                !.unsubscribed = unsubscribed,
                                !.unsubscribed_at =
                                    IF unsubscribed = 1
                                    THEN (IF @ # NoValue THEN @ ELSE NowIso)
                                    ELSE NoValue]]
        /\ issued' = Issue(issued, recipients')
        /\ UNCHANGED <<mailbox, seen, config, pc, daemonLocals, tx, sent, err,
                       imapOpen, smtpOpen, clock, skipped, pending>>

\* time passes between two requests
Tick ==
    /\ clock < MaxClock
    /\ clock' = clock + 1
    /\ UNCHANGED <<mailbox, seen, config, recipients, pc, daemonLocals, tx, sent,
                   err, imapOpen, smtpOpen, resp, history>>

\* what requests are made with
ArgE == {<<>>, AddrA, AddrC, <<"A","@","X">>}
ArgT == {"", "t1", "t3"}
ArgS == {<<>>} \cup { Sign(e, t) : e \in {AddrA, AddrC}, t \in {"t1", "t3"} }
Blobs == { <<AddrA>>, <<<<" ","C","@","x"," ">>, <<>>>>, <<AddrC, AddrA>>, <<>> }

\* the requests of subscribers, strangers and the admin
WebAll ==
    \/ \E e \in ArgE, t \in ArgT, s \in ArgS : Unsub(e, t, s)
    \/ \E r \in DOMAIN recipients :
          LET link == BuildUnsubLink(Lower(recipients[r].email), recipients[r].token)
              args == RequestArgs(link)
          IN  Unsub(args.e, args.t, args.s)
    \/ \E auth \in BOOLEAN, action \in {"bulk_subscribe", "bulk_unsubscribe"},
          pieces \in Blobs : ManageBulk(auth, action, pieces)
    \/ \E auth \in BOOLEAN, rid \in DOMAIN recipients,
          emailRaw \in {<<>>, AddrA, <<"C","@","x"," ">>},
          rankRaw \in {"1", "x"}, unsubRaw \in {"0", "1"} :
          SaveExisting(auth, rid, emailRaw, rankRaw, unsubRaw)
    \/ Tick

\* a subscriber follows the link of their copy; the admin posts one address
Web ==
    \/ \E r \in DOMAIN recipients :
          Unsub(recipients[r].email, recipients[r].token,
                Sign(recipients[r].email, recipients[r].token))
    \/ \E r \in DOMAIN recipients, action \in {"bulk_subscribe", "bulk_unsubscribe"} :
          ManageBulk(TRUE, action, <<recipients[r].email>>)

Next == Daemon \/ Web

Init == InitWith(Kinds, NumMsgs)

\* the daemon and the web handlers on one database
Spec == Init /\ [][Next]_vars

InitDaemon == InitWith(DaemonKinds, NumMsgs + 1)

\* the daemon alone, over a mailbox of several messages
SpecDaemon == InitDaemon /\ [][Daemon]_vars

\* rosters of three rows with every choice of two ranks, the last row
\* subscribed or not
Ranks == {1, 2}
Rosters ==
    { << Row(AddrA, ra, 0, NoValue, "t1"), Row(AddrB, rb, 0, NoValue, "t2"),
         Row(AddrC, rc, u, IF u = 1 THEN IsoFormat(1) ELSE NoValue, "t3") >> :
        ra \in Ranks, rb \in Ranks, rc \in Ranks, u \in {0, 1} }

InitRanked ==
    /\ mailbox \in [1..NumMsgs -> Messages(DaemonKinds, NumMsgs)]
    /\ \E top \in Timestamps(NumMsgs) : { mailbox[m].ts : m \in 1..NumMsgs } = 1..top
    /\ recipients \in Rosters
    /\ seen = {} /\ config = NoValue /\ pc = "idle" /\ i = 0 /\ routed = NotRouted
    /\ contacts = <<>> /\ k = 0 /\ wire = NoWire /\ tx = TxNone /\ sent = <<>> /\ err = "none"
    /\ imapOpen = 0 /\ smtpOpen = 0 /\ resp = 0 /\ clock = 1
    /\ skipped = {} /\ pending = {}
    /\ issued = Issue({}, recipients)

\* the daemon alone, over rosters with equal and different ranks
SpecRanked == InitRanked /\ [][Daemon]_vars

InitWeb ==
    /\ mailbox = <<>>
    /\ recipients = << Row(AddrA, 2, 0, NoValue, "t1"),
                       Row(AddrB, 1, 0, NoValue, "t2") >>
    /\ seen = {} /\ config = NoValue /\ pc = "idle" /\ i = 0 /\ routed = NotRouted
    /\ contacts = <<>> /\ k = 0 /\ wire = NoWire /\ tx = TxNone /\ sent = <<>> /\ err = "none"
    /\ imapOpen = 0 /\ smtpOpen = 0 /\ resp = 0 /\ clock = 1
    /\ skipped = {} /\ pending = {}
    /\ issued = Issue({}, recipients)

\* the web handlers alone, with every kind of request, as time passes
SpecWeb == InitWeb /\ [][WebAll]_vars

InitLive == InitWith(DaemonKinds, NumMsgs)

\* the daemon alone; its process keeps running, so a step it can take is
\* taken (every call of a pass returns or times out)
SpecLive == InitLive /\ [][Daemon]_vars /\ WF_vars(Pass)

\* ------------------------------------------------------------------ claims

\* C1 (as stated): whenever the daemon issues a Broadcast send to an address,
\* that address's stored row is subscribed (unsubscribed=0) at that moment,
\* whatever /unsub and /manage writes interleave with the recipient loop.
C1_SendOnlyToSubscribed ==
    [][ (routed.as = "broadcast" /\ Len(sent') = Len(sent) + 1)
        => \E r \in DOMAIN recipients :
              /\ recipients[r].email = sent'[Len(sent')].rcpt
              /\ recipients[r].unsubscribed = 0 ]_vars

\* C1 (amended): every address in the list load_contacts returns is subscribed
\* in the stored roster at the moment of that read, and every Broadcast send
\* goes to the next address of that list, unchanged since it was loaded.
C1_SendOnlyToSnapshot ==
    [][ /\ (pc = "load" /\ pc' = "set_cursor")
           => \A j \in DOMAIN contacts' : \E r \in DOMAIN recipients :
                 /\ recipients[r].email = contacts'[j].email
                 /\ recipients[r].unsubscribed = 0
        /\ (routed.as = "broadcast" /\ Len(sent') = Len(sent) + 1)
           => /\ pc = "send"
              /\ contacts' = contacts
              /\ sent'[Len(sent')].rcpt = contacts[k].email ]_vars

\* C1 witness: a Broadcast send has been issued to an address whose stored row
\* was unsubscribed by a web write after the list was loaded.
C1_Witness ==
    /\ routed.as = "broadcast"
    /\ sent # <<>>
    /\ \E r \in DOMAIN recipients :
          /\ recipients[r].email = sent[Len(sent)].rcpt
          /\ recipients[r].unsubscribed = 1

\* C2: a fetched message whose receipt timestamp is <= the stored cursor is
\* discarded: the step that classifies it issues no send, changes no roster
\* row, marks nothing seen, leaves the cursor as it is and goes on to the next
\* message id.
C2_DiscardAtCursor ==
    [][ ( /\ pc = "classify" /\ pc' # "classify" /\ pc' # "idle" /\ err' = err
          /\ config # NoValue
          /\ mailbox[i].ts <= config[2] )
        => /\ routed' = [mid |-> i, as |-> "discard"]
           /\ i' = i + 1
           /\ sent' = sent
           /\ recipients' = recipients
           /\ seen' = seen
           /\ config' = config
           /\ tx' = tx ]_vars

\* C2 witness: a message has just been discarded at the cursor check.
C2_Witness ==
    /\ routed.as = "discard"
    /\ config # NoValue
    /\ mailbox[routed.mid].ts <= config[2]

\* C3: the committed cursor never decreases, over passes, faults and restarts
\* and whatever the order of the receipt timestamps among the message ids.
C3_CursorMonotonic ==
    [][ (config # NoValue) => (config' # NoValue /\ config'[2] >= config[2]) ]_vars

\* C3 witness: a message listed after one with a later timestamp is met while
\* the cursor is at the later timestamp.
C3_Witness ==
    /\ routed.as = "discard"
    /\ routed.mid > 1
    /\ config # NoValue
    /\ mailbox[routed.mid].ts < config[2]
    /\ routed.mid \notin seen

\* C4 (as stated): for a Broadcast message M (a) the cursor is committed at M
\* only after a send of M went to every address of the list loaded for M,
\* (b) when the pass faults before that commit the committed cursor has not
\* reached M's timestamp, and (c) M, whose sends were begun and never
\* committed, is attempted again and not discarded as already processed.
C4_CursorAfterAllSends ==
    /\ (pc = "store" /\ routed.as = "broadcast")
       => \A j \in DOMAIN contacts : \E n \in DOMAIN sent :
             sent[n] = [mid |-> i, rcpt |-> contacts[j].email]
    /\ (pc = "finally" /\ err # "none" /\ routed.as = "broadcast" /\ tx.open)
       => (config = NoValue \/ config[2] < mailbox[i].ts)
    /\ \A m \in pending : routed # [mid |-> m, as |-> "discard"]

\* C5: every daemon step while a Bounce message is handled either leaves the
\* committed cursor and the committed roster as they are, or puts the cursor
\* at the message's timestamp and has every roster row the report names
\* unsubscribed with a timestamp.
C5_BounceAtomic ==
    [][ (routed.as = "bounce" /\ pc \in {"set_cursor", "bounce", "commit"} /\ pc' # pc)
        => \/ config' = config /\ recipients' = recipients
           \/ /\ config' = <<"iso", mailbox[i].ts>>
              /\ \A r \in DOMAIN recipients :
                    recipients[r].email \in ExtractBounceRecipients(mailbox[i])
                    => /\ recipients'[r].unsubscribed = 1
                       /\ recipients'[r].unsubscribed_at # NoValue ]_vars

\* C5 witness: a Bounce message has been committed: the cursor is at its
\* timestamp and a roster row it names is unsubscribed.
C5_Witness ==
    /\ pc = "store"
    /\ routed.as = "bounce"
    /\ config = <<"iso", mailbox[i].ts>>
    /\ \E r \in DOMAIN recipients :
          /\ recipients[r].email \in ExtractBounceRecipients(mailbox[i])
          /\ recipients[r].unsubscribed = 1

\* C6 (as stated): when the send to one recipient of a Broadcast fails, every
\* later recipient of the loaded list still gets its send in the same pass.
C6_SendFailureDoesNotAbort ==
    (pc = "finally" /\ err = "send" /\ routed.as = "broadcast")
    => \A j \in (k + 1)..Len(contacts) : \E n \in DOMAIN sent :
          sent[n] = [mid |-> i, rcpt |-> contacts[j].email]

\* C7 (as stated): a transform fault on one message affects that message only:
\* when the pass ends, every message listed after it has been fetched and
\* handled in that pass.
C7_FaultAffectsOneMessage ==
    (pc = "finally" /\ err = "transform") => i >= Len(mailbox)

\* C8 (as stated): a non-bounce message above the cursor from a sender off the
\* allowlist is ignored (no send, no roster change) and the cursor is advanced
\* to its timestamp.
C8_IgnoredAdvancesCursor ==
    [][ ( /\ pc = "classify" /\ pc' # "classify" /\ pc' # "idle" /\ err' = err
          /\ (config = NoValue \/ mailbox[i].ts > config[2])
          /\ ~IsBounce(mailbox[i])
          /\ ~FromAllowed(mailbox[i]) )
        => /\ sent' = sent
           /\ recipients' = recipients
           /\ config' = <<"iso", mailbox[i].ts>> ]_vars

\* C9 (as stated): a failed fetch skips the message without ending the pass
\* and without changing the cursor, and when a later fetch of that message
\* succeeds it is classified on its own merits, not discarded as processed.
C9_SkippedIsClassifiedLater ==
    [][ /\ (pc = "fetch" /\ i' = i + 1) => (config' = config /\ pc' = LoopAt(i + 1))
        /\ (pc = "classify" /\ i \in skipped /\ routed' # routed)
           => routed'.as # "discard" ]_vars

\* C10: a bounce above the cursor is routed as Bounce whatever its sender and
\* its recipient headers; a message routed as TestProbe is no bounce, is from
\* an allowed sender and carries the test marker; a message routed as
\* Broadcast is no bounce, is from an allowed sender and carries no marker.
C10_Routing ==
    (routed.mid # 0 /\ pc # "store")
    => LET msg == mailbox[routed.mid]
           bounce == IsBounce(msg)
           allowed == FromAllowed(msg)
           marked == HasTestTag(ExtractHeaderRecipients(msg))
       IN  /\ (bounce /\ (config = NoValue \/ msg.ts > config[2]))
              => routed.as = "bounce"
           /\ routed.as = "test" => (~bounce /\ allowed /\ marked)
           /\ routed.as = "broadcast" => (~bounce /\ allowed /\ ~marked)

\* C10 witness: a message that is a bounce, comes from an allowed sender and
\* carries the test marker has been routed as Bounce.
C10_Witness ==
    /\ routed.as = "bounce"
    /\ FromAllowed(mailbox[routed.mid])
    /\ HasTestTag(ExtractHeaderRecipients(mailbox[routed.mid]))

\* C11: while a Bounce message is handled no send is issued, no roster row is
\* created and no row goes back to subscribed; the commit leaves every
\* existing row whose address the report names as Final-Recipient or
\* Original-Recipient unsubscribed with a timestamp, also a row that was
\* unsubscribed already, and the pass goes on.
C11_BounceUnsubscribes ==
    [][ ( /\ routed.as = "bounce"
          /\ pc \in {"load", "set_cursor", "bounce", "commit"}
          /\ pc' # pc /\ pc' # "idle" /\ err' = err )
        => /\ sent' = sent
           /\ DOMAIN recipients' = DOMAIN recipients
           /\ \A r \in DOMAIN recipients :
                 /\ recipients'[r].email = recipients[r].email
                 /\ recipients[r].unsubscribed = 1 => recipients'[r].unsubscribed = 1
           /\ pc = "commit"
              => /\ pc' = "store"
                 /\ \A r \in DOMAIN recipients :
                       recipients[r].email \in ExtractBounceRecipients(mailbox[i])
                       => /\ recipients'[r].unsubscribed = 1
                          /\ recipients'[r].unsubscribed_at # NoValue ]_vars

\* C11 witness: a Bounce report naming a roster address and an address no row
\* has was committed: the named row is unsubscribed, nothing was sent.
C11_Witness ==
    /\ pc = "store"
    /\ routed.as = "bounce"
    /\ sent = <<>>
    /\ \E e \in ExtractBounceRecipients(mailbox[i]) :
          \A r \in DOMAIN recipients : recipients[r].email # e
    /\ \E r \in DOMAIN recipients :
          /\ recipients[r].email \in ExtractBounceRecipients(mailbox[i])
          /\ recipients[r].unsubscribed = 1
          /\ recipients[r].unsubscribed_at # NoValue

\* C12: once a test probe with a sender address has been relayed, the sends
\* issued for it are exactly one, to that sender address, and none to a
\* roster address.
C12_TestProbeOneSend ==
    (routed.as = "test" /\ pc \in {"commit", "store"}
        /\ ExtractSenderEmail(mailbox[routed.mid]) # NoValue)
    => /\ { n \in DOMAIN sent : sent[n].mid = routed.mid } = {Len(sent)}
       /\ sent[Len(sent)].rcpt = Lower(mailbox[routed.mid].from)
       /\ \A n \in DOMAIN sent, j \in DOMAIN contacts :
             sent[n].mid = routed.mid => sent[n].rcpt # contacts[j].email

\* C12 witness: a test probe was relayed to its sender while the roster has
\* subscribed addresses.
C12_Witness ==
    /\ routed.as = "test"
    /\ pc = "store"
    /\ sent # <<>>
    /\ sent[Len(sent)].rcpt = ExtractSenderEmail(mailbox[routed.mid])
    /\ contacts # <<>>

\* C13 (as stated): between the classification of a test probe and its commit
\* the daemon neither reads the subscriber list nor writes a roster row.
C13_TestProbeNoRosterAccess ==
    [][ ( /\ routed.as = "test"
          /\ pc \in {"load", "set_cursor", "test", "commit"}
          /\ pc' # pc /\ pc' # "idle" /\ pc' # "finally" )
        => /\ contacts' = contacts
           /\ recipients' = recipients ]_vars

\* C14: when every send of a Broadcast message succeeded, the sends of that
\* message are one per subscribed roster row, each to that row's address
\* alone, in ascending rank and, among equal ranks, in insertion order.
C14_OneSendPerSubscriberInRankOrder ==
    (pc = "store" /\ routed.as = "broadcast")
    => LET mine == SelectSeq(sent, LAMBDA x : x.mid = i)
           live == { r \in DOMAIN recipients : recipients[r].unsubscribed = 0 }
           rowOf(n) == CHOOSE r \in DOMAIN recipients :
                          recipients[r].email = mine[n].rcpt
       IN  /\ Len(mine) = Cardinality(live)
           /\ \A r \in live :
                 Cardinality({ n \in DOMAIN mine : mine[n].rcpt = recipients[r].email }) = 1
           /\ \A n \in DOMAIN mine, m \in DOMAIN mine :
                 n < m => \/ recipients[rowOf(n)].rank < recipients[rowOf(m)].rank
                          \/ /\ recipients[rowOf(n)].rank = recipients[rowOf(m)].rank
                             /\ rowOf(n) < rowOf(m)

\* C14 witness: a Broadcast went to three subscribers, two of them of equal
\* rank in insertion order, and not in the order of the rows.
C14_Witness ==
    /\ pc = "store"
    /\ routed.as = "broadcast"
    /\ Len(sent) = 3
    /\ sent[1].rcpt # recipients[1].email
    /\ \E r \in DOMAIN recipients, q \in DOMAIN recipients :
          r # q /\ recipients[r].rank = recipients[q].rank

\* C15: the sends of a Broadcast message go only to addresses whose row is
\* subscribed after everything committed before the message was taken up: an
\* address a Bounce message of the same or an earlier pass unsubscribed gets
\* no send of it.
C15_RosterReadPerMessage ==
    (routed.as = "broadcast" /\ pc \in {"send", "commit", "store"})
    => \A n \in DOMAIN sent :
          sent[n].mid = i
          => \E r \in DOMAIN recipients :
                /\ recipients[r].email = sent[n].rcpt
                /\ recipients[r].unsubscribed = 0

\* C15 witness: in one pass a Bounce message unsubscribed an address and the
\* Broadcast message after it was sent to the rest of the roster.
C15_Witness ==
    /\ routed.as = "broadcast"
    /\ pc = "store"
    /\ i > 1
    /\ (i - 1) \in seen
    /\ IsBounce(mailbox[i - 1])
    /\ sent # <<>>
    /\ \E r \in DOMAIN recipients :
          /\ recipients[r].unsubscribed = 1
          /\ recipients[r].email \in ExtractBounceRecipients(mailbox[i - 1])

\* C16 (as stated): GET /unsub answers 400 when e, t or s is missing or empty,
\* 403 when the signature does not verify, no row has the address or the
\* row's token differs from t, and 200 otherwise with the row unsubscribed;
\* a 400 or 403 changes no row.
C16_UnsubResponses ==
    [][ \A e \in {<<>>, AddrA, AddrB, AddrC, <<"A","@","X">>}, t \in Tokens \cup {""},
           s \in {<<>>} \cup { <<"mac", a, u>> : a \in {AddrA, AddrB, AddrC}, u \in Tokens } :
          Unsub(e, t, s)
          => LET el == Lower(e)
                 rows == { r \in DOMAIN recipients : recipients[r].email = el }
                 missing == e = <<>> \/ t = "" \/ s = <<>>
                 denied == \/ s # <<"mac", el, t>>
                           \/ \A r \in rows : recipients[r].token # t
             IN  IF missing THEN resp' = 400 /\ recipients' = recipients
                 ELSE IF denied THEN resp' = 403 /\ recipients' = recipients
                 ELSE /\ resp' = 200
                      /\ \A r \in rows : recipients'[r].unsubscribed = 1 ]_vars

\* C17 (as stated): a call of /unsub with valid parameters for a subscriber an
\* earlier such call unsubscribed answers 200 and leaves the subscriber's
\* row, its unsubscribed_at included, as the first call left it.
C17_UnsubTwiceSameState ==
    [][ \A e \in ArgE, t \in ArgT, s \in ArgS :
          ( /\ Unsub(e, t, s)
            /\ s = <<"mac", Lower(e), t>>
            /\ \E r \in DOMAIN recipients :
                  /\ recipients[r].email = Lower(e)
                  /\ recipients[r].token = t
                  /\ recipients[r].unsubscribed = 1
                  /\ recipients[r].unsubscribed_at # NoValue )
          => (resp' = 200 /\ recipients' = recipients) ]_vars

\* C18 (as stated): after any sequence of roster operations every row's
\* address has the token that address first had, and the link made of an
\* address and its first token is accepted as long as a row has the address.
C18_OneTokenPerAddress ==
    /\ \A r \in DOMAIN recipients :
          [email |-> recipients[r].email, token |-> recipients[r].token] \in issued
    /\ \A x \in issued :
          (\E r \in DOMAIN recipients : recipients[r].email = x.email)
          => UnsubStatus(recipients, x.email, x.token, SignUnsub(x.email, x.token)) = 200

\* C19: for every entry (e, t) load_contacts gives, the link the daemon
\* builds for it, read back from the query string, passes the checks of
\* /unsub; the same link with another address or another token under the
\* same signature, and a link signed for a token the row does not hold, get
\* 403.
C19_LinkAcceptedTamperRejected ==
    \A j \in DOMAIN LoadContacts(recipients) :
       LET c == LoadContacts(recipients)[j]
           args == RequestArgs(BuildUnsubLink(c.email, c.token))
       IN  /\ UnsubStatus(recipients, args.e, args.t, args.s) = 200
           /\ \A e \in {AddrA, AddrB, AddrC} \ {c.email} :
                 UnsubStatus(recipients, e, args.t, args.s) = 403
           /\ \A t \in Tokens \ {c.token} :
                 /\ UnsubStatus(recipients, args.e, t, args.s) = 403
                 /\ UnsubStatus(recipients, args.e, t, SignUnsub(c.email, t)) = 403

\* C19 witness: one subscriber has just unsubscribed through a link while
\* another row, whose address was edited, is subscribed under its old token.
C19_Witness ==
    /\ resp = 200
    /\ \E r \in DOMAIN recipients :
          /\ recipients[r].unsubscribed = 1
          /\ recipients[r].unsubscribed_at = NowIso
    /\ \E r \in DOMAIN recipients :
          /\ recipients[r].unsubscribed = 0
          /\ recipients[r].email = AddrC
          /\ recipients[r].token = "t1"

ForwardKinds == {KBroadcast, KImage, KMixed, KTest, KBounce, KMalformed}
InitForward == InitWith(ForwardKinds, NumMsgs)
SpecForward == InitForward /\ [][Daemon]_vars

\* C21: in every Broadcast copy, each text leaf part (text/plain, text/html)
\* carries the notice (the anchor for HTML, the trailing line otherwise) after
\* its own text, and every other part, the sole body of a non-multipart
\* message included, has the content type and the payload of the source.
C21_NoticeOnTextPartsOnly ==
    wire.parts # <<>> =>
        LET src == mailbox[wire.mid].parts
        IN  /\ DOMAIN wire.parts = DOMAIN src
            /\ \A p \in DOMAIN src :
                   /\ wire.parts[p].ctype = src[p].ctype
                   /\ wire.parts[p].payload.of = p
                   /\ ~wire.parts[p].payload.repr
                   /\ wire.parts[p].payload.notice =
                          (CASE src[p].ctype = "text/html" -> "anchor"
                             [] src[p].ctype = "text/plain" -> "line"
                             [] OTHER -> "none")

\* ------------------------------------------------------ the roster's writers
\* the rank field of the form, as the page fills it in from the row
RankRaw(rank) ==
    CASE rank = 1 -> "1"
      [] rank = 2 -> "2"
      [] OTHER -> "100"

\* the subscriber's link, the admin's bulk forms and the admin saving one row
\* of the table with its checkbox set or cleared
WebRoster ==
    \/ Web
    \/ \E r \in DOMAIN recipients, unsubRaw \in {"0", "1"} :
          SaveExisting(TRUE, r, recipients[r].email, RankRaw(recipients[r].rank),
                       unsubRaw)
    \/ Tick

\* the steps the daemon takes on a mailbox of Bounce reports, its only
\* messages that write the recipients table
BouncePass ==
    \/ ConnectImap \/ ConnectSmtp \/ Search \/ Fetch \/ Classify
    \/ LoadContactsStep \/ SetCursor \/ BounceUpdate \/ Commit \/ MarkSeen
    \/ Fault \/ Finally \/ Crash

InitRoster == InitWith({KBounce}, NumMsgs)

\* every writer of the recipients table on one database
SpecRoster == InitRoster /\ [][BouncePass \/ WebRoster]_vars

\* C22: whatever bulk subscribe, bulk unsubscribe, save-existing, /unsub and
\* bounce auto-unsubscribe have done, a row has unsubscribed = 1 exactly when
\* its unsubscribed_at is not NULL.
C22_UnsubscribedIffTimestamp ==
    \A r \in DOMAIN recipients :
        (recipients[r].unsubscribed = 1) <=> (recipients[r].unsubscribed_at # NoValue)

\* C22 witness: a Bounce report has just unsubscribed one row in the daemon's
\* transaction, after a web request unsubscribed the other row at an earlier
\* instant.
C22_Witness ==
    /\ pc = "store"
    /\ routed.as = "bounce"
    /\ resp = 200
    /\ \E r, q \in DOMAIN recipients :
          /\ recipients[r].email \in ExtractBounceRecipients(mailbox[i])
          /\ recipients[r].unsubscribed = 1
          /\ recipients[q].unsubscribed = 1
          /\ recipients[q].unsubscribed_at # NoValue
          /\ recipients[q].unsubscribed_at # recipients[r].unsubscribed_at

\* C23: between two passes (main_loop is not running) no mailbox session and
\* no outbound session of an earlier pass is left without its logout / quit,
\* however the pass ended.
C23_SessionsClosed ==
    pc = "idle" => (imapOpen = 0 /\ smtpOpen = 0)

====
